---- MODULE Spec2Model ----
(***************************************************************************)
(* AuraLink backend: the MQTT service (backend/main.py) and the FastAPI    *)
(* service (backend/main_api.py).                                          *)
(*                                                                         *)
(* The repository has two entry points; a run is a run of one of them.     *)
(* main_api.py itself has two halves that share no variable: the /data     *)
(* handler (with the email cursor and the bus client) and the viewer       *)
(* registry (active_connections, the /ws handler, broadcast_message):      *)
(* process_sensor_data never calls broadcast_message.  `prog` says which   *)
(* of the three is running.                                                *)
(***************************************************************************)
EXTENDS Integers, Sequences, FiniteSets, TLC

VARIABLES
    prog,                \* "main" (main.py) | "api" (main_api.py /data) | "viewers" (main_api.py /ws)
    proc,                \* the process: "starting" | "running" | "exited"
    conn,                \* the bus session: "none" | "raised" | "pending" | "accepted" | "refused"
    subscribed,          \* main.py: client.subscribe(TOPIC_SENSOR_DATA) was issued
    email_index,         \* main.py email_index / main_api.py current_email_index
    msg,                 \* one record per inbound sensor message (thread / request)
    active_connections,  \* main_api.py: the list of registered websockets
    ws,                  \* per viewer: state of its /ws handler and of its client
    bc                   \* the broadcast_message call in flight, if any

vars == <<prog, proc, conn, subscribed, email_index, msg, active_connections, ws, bc>>

----------------------------------------------------------------------------
(* Bounds *)

MaxMsgs == 2        \* inbound sensor messages per run
MaxViewers == 3     \* websocket clients per run

Msgs == 1..MaxMsgs
Viewers == 1..MaxViewers

----------------------------------------------------------------------------
(* Topics *)

TOPIC_SENSOR_DATA == "auralink/sensor/data"
TOPIC_DISPLAY_QUOTE == "auralink/display/quote"
TOPIC_DISPLAY_SUMMARY == "auralink/display/summary"
TOPIC_URGENCY_LED == "auralink/urgency/led"

----------------------------------------------------------------------------
(* Python values.  None is Python's None; every text is a string other     *)
(* than None.  A value is truthy unless it is None or the empty string.    *)

None == "None"
Pending == "pending"            \* a call that has not returned (yet)

Truthy(v) == v # None /\ v # ""

\* str.upper() on the texts the backend is made to answer with
upper(s) ==
    CASE s = "low" -> "LOW"
      [] s = "Medium" -> "MEDIUM"
      [] s = "high" -> "HIGH"
      [] s = "High priority" -> "HIGH PRIORITY"
      [] s = "urgent" -> "URGENT"
      [] OTHER -> s

----------------------------------------------------------------------------
(* Sensor payloads: the bytes of one inbound message, by what json.loads   *)
(* makes of them.                                                          *)

JAbsent == [t |-> "absent", n |-> 0, s |-> ""]      \* key not in the object
JNull == [t |-> "null", n |-> 0, s |-> ""]
JNum(x) == [t |-> "num", n |-> x, s |-> ""]         \* x in tenths: 255 is 25.5
JStr(x) == [t |-> "str", n |-> 0, s |-> x]

Payload(k, temp, hum, light, nox) ==
    [kind |-> k, temperature |-> temp, humidity |-> hum,
     light_percent |-> light, nox_percent |-> nox]

NotUtf8 == Payload("bytes", JAbsent, JAbsent, JAbsent, JAbsent)    \* not UTF-8 text
Garbage == Payload("garbage", JAbsent, JAbsent, JAbsent, JAbsent)  \* not JSON
JsonArray == Payload("array", JAbsent, JAbsent, JAbsent, JAbsent)  \* JSON, not an object
Obj(temp, hum) == Payload("object", temp, hum, JAbsent, JAbsent)
TestPayload == Obj(JNum(255), JNum(600))            \* test_api.py: 25.5, 60.0

Payloads ==
    { NotUtf8, Garbage, JsonArray,
      Obj(JAbsent, JNum(600)), Obj(JNum(255), JAbsent),
      Obj(JNull, JNum(600)),
      Obj(JStr("hot"), JNum(600)),
      TestPayload }

\* dict.get(key): None (JNull, as json.loads maps null to None) when the key
\* is absent, the value otherwise
get(data, key) ==
    IF data[key].t = "absent" THEN JNull ELSE data[key]

----------------------------------------------------------------------------
(* The generative backend: what one call can come back with.               *)

\* An answer is Failure (the call raised: transport, auth, response shape)
\* or the text of the completion after strip(), which can be empty.
Failure == "failure"

QuoteAnswers == {Failure, "A warm, still room."}
SummaryAnswers == {Failure, "Deadline moved to Friday."}
UrgencyAnswers == {Failure, "", "Medium", "urgent"}

Levels == {"LOW", "MEDIUM", "HIGH"}

\* main.py call_openai_api: the text, or None when the call raised
call_openai_api(answer) == IF answer = Failure THEN None ELSE answer

\* analyze_email_urgency giving up on a failed call instead of defaulting
analyze_email_urgency_NoDefault(urgency) ==
    IF urgency = None
    THEN None
    ELSE IF Truthy(urgency) /\ upper(urgency) \in Levels
    THEN upper(urgency)
    ELSE "LOW"

\* main.py analyze_email_urgency on the value call_openai_api returned
analyze_email_urgency(urgency) ==
    IF Truthy(urgency) /\ upper(urgency) \in Levels
    THEN upper(urgency)
    ELSE "LOW"

----------------------------------------------------------------------------
(* Email pool *)

MainPoolSize == 3       \* len(mock_emails), main.py
ApiPoolSize == 4        \* len(MOCK_EMAILS), main_api.py
PoolSize == IF prog = "main" THEN MainPoolSize ELSE ApiPoolSize
NoEmail == -1

----------------------------------------------------------------------------
(* Per-message record *)

Pub(topic, payload) == [kind |-> "publish", topic |-> topic, payload |-> payload]

NoReply == [quote |-> Pending, summary |-> Pending, urgency |-> Pending]

\* the email (its index in the pool) each email call was invoked with
NoArg == [summary |-> NoEmail, urgency |-> NoEmail]

IdleMsg ==
    [pc |-> "idle", payload |-> Garbage, email |-> NoEmail, idx |-> NoEmail,
     arg |-> NoArg, reply |-> NoReply, out |-> <<>>, status |-> 0]

\* dict payloads handed to broadcast_message; Absent marks a missing key
Absent == "<absent>"
CastPayload(quote, summary, level) ==
    [quote |-> quote, summary |-> summary, level |-> level]
NoMessage == [type |-> "", quote |-> "", summary |-> "", level |-> ""]   \* {}

IdleCast ==
    [pc |-> "idle", topic |-> "", message |-> NoMessage, i |-> 0, cur |-> 0,
     start |-> {}, tried |-> {}, delivered |-> {}, evicted |-> {}, quiet |-> TRUE]

\* the state in which program p starts
Start(p) ==
    /\ prog = p
    /\ proc = "starting"
    /\ conn = "none"
    /\ subscribed = FALSE
    /\ email_index = 0
    /\ msg = [m \in Msgs |-> IdleMsg]
    /\ active_connections = <<>>
    /\ ws = [v \in Viewers |-> "idle"]
    /\ bc = IdleCast

Init == \E p \in {"main", "api", "viewers"} : Start(p)
InitPipeline == \E p \in {"main", "api"} : Start(p)
InitMain == Start("main")
InitApi == Start("api")
InitViewers == Start("viewers")

----------------------------------------------------------------------------
(* main.py *)

ConnackCodes == {0, 5}

\* __main__: client.connect(...) raises -> exit(1); otherwise loop_forever()
MainConnect ==
    /\ prog = "main" /\ proc = "starting"
    /\ \E raised \in BOOLEAN :
         IF raised
         THEN proc' = "exited" /\ conn' = "raised"
         ELSE proc' = "running" /\ conn' = "pending"
    /\ UNCHANGED <<prog, subscribed, email_index, msg, active_connections, ws, bc>>

\* on_connect(client, userdata, flags, rc)
on_connect ==
    /\ prog = "main" /\ proc = "running" /\ conn = "pending"
    /\ \E rc \in ConnackCodes :
         IF rc = 0
         THEN conn' = "accepted" /\ subscribed' = TRUE
         ELSE conn' = "refused" /\ subscribed' = subscribed
    /\ UNCHANGED <<prog, proc, email_index, msg, active_connections, ws, bc>>

\* messages are numbered in the order they arrive
NextMsg(m) == msg[m].pc = "idle" /\ \A k \in Msgs : k < m => msg[k].pc # "idle"

\* on_message that runs process_sensor_data itself instead of starting a
\* thread: the next delivery waits until every earlier message is handled
on_message_Inline(m) ==
    /\ prog = "main" /\ proc = "running" /\ subscribed
    /\ NextMsg(m)
    /\ \A k \in Msgs : k < m => msg[k].pc = "done"
    /\ \E p \in Payloads :
         IF p.kind = "bytes"                            \* UnicodeDecodeError
         THEN /\ msg' = [msg EXCEPT ![m] = [@ EXCEPT !.pc = "done", !.payload = p]]
              /\ proc' = "exited"
         ELSE /\ msg' = [msg EXCEPT ![m] = [@ EXCEPT !.pc = "started", !.payload = p]]
              /\ proc' = proc
    /\ UNCHANGED <<prog, conn, subscribed, email_index, active_connections, ws, bc>>

\* on_message: decode, start a thread on process_sensor_data, return. The
\* decode (line 155) is outside every try: on bytes that are not UTF-8 it
\* raises out of the callback, and the exception leaves client.loop_forever()
\* (line 178), which ends the main thread; threads already started run on.
on_message(m) ==
    /\ prog = "main" /\ proc = "running" /\ subscribed
    /\ NextMsg(m)
    /\ \E p \in Payloads :
         IF p.kind = "bytes"                            \* UnicodeDecodeError
         THEN /\ msg' = [msg EXCEPT ![m] = [@ EXCEPT !.pc = "done", !.payload = p]]
              /\ proc' = "exited"
         ELSE /\ msg' = [msg EXCEPT ![m] = [@ EXCEPT !.pc = "started", !.payload = p]]
              /\ proc' = proc
    /\ UNCHANGED <<prog, conn, subscribed, email_index, active_connections, ws, bc>>

\* process_sensor_data, lines 117-129: parse, check, call the backend for a quote
MainParse(m) ==
    /\ prog = "main" /\ msg[m].pc = "started"
    /\ LET p == msg[m].payload IN
         IF p.kind = "garbage"                          \* json.JSONDecodeError
         THEN msg' = [msg EXCEPT ![m].pc = "done"]
         ELSE IF p.kind # "object"                      \* data.get: AttributeError
         THEN msg' = [msg EXCEPT ![m].pc = "done"]
         ELSE IF get(p, "temperature") = JNull \/ get(p, "humidity") = JNull
         THEN msg' = [msg EXCEPT ![m].pc = "done"]
         ELSE msg' = [msg EXCEPT ![m].pc = "quote"]
    /\ UNCHANGED <<prog, proc, conn, subscribed, email_index, active_connections, ws, bc>>

\* generate_literary_quote that is called again after a failure
MainQuoteReturn_Retry(m) ==
    /\ prog = "main" /\ msg[m].pc = "quote"
    /\ \E a \in QuoteAnswers :
         LET quote == call_openai_api(a) IN
         msg' = [msg EXCEPT ![m] =
                   [@ EXCEPT !.pc = IF a = Failure THEN "quote" ELSE "email",
                             !.reply.quote = a,
                             !.out = IF Truthy(quote)
                                     THEN Append(@, Pub(TOPIC_DISPLAY_QUOTE, quote))
                                     ELSE @]]
    /\ UNCHANGED <<prog, proc, conn, subscribed, email_index, active_connections, ws, bc>>

\* lines 129-132: generate_literary_quote returns; publish it if truthy
MainQuoteReturn(m) ==
    /\ prog = "main" /\ msg[m].pc = "quote"
    /\ \E a \in QuoteAnswers :
         LET quote == call_openai_api(a) IN
         msg' = [msg EXCEPT ![m] =
                   [@ EXCEPT !.pc = "email",
                             !.reply.quote = a,
                             !.out = IF Truthy(quote)
                                     THEN Append(@, Pub(TOPIC_DISPLAY_QUOTE, quote))
                                     ELSE @]]
    /\ UNCHANGED <<prog, proc, conn, subscribed, email_index, active_connections, ws, bc>>

\* get_latest_email, line 61: email = mock_emails[email_index]
MainEmailLoad(m) ==
    /\ prog = "main" /\ msg[m].pc = "email"
    /\ msg' = [msg EXCEPT ![m] = [@ EXCEPT !.pc = "index_load", !.email = email_index]]
    /\ UNCHANGED <<prog, proc, conn, subscribed, email_index, active_connections, ws, bc>>

\* the cursor advance without the modulo
MainIndexLoad_NoWrap(m) ==
    /\ prog = "main" /\ msg[m].pc = "index_load"
    /\ msg' = [msg EXCEPT ![m] =
                 [@ EXCEPT !.pc = "index_store", !.idx = email_index + 1]]
    /\ UNCHANGED <<prog, proc, conn, subscribed, email_index, active_connections, ws, bc>>

\* line 62, right-hand side: (email_index + 1) % len(mock_emails)
MainIndexLoad(m) ==
    /\ prog = "main" /\ msg[m].pc = "index_load"
    /\ msg' = [msg EXCEPT ![m] =
                 [@ EXCEPT !.pc = "index_store", !.idx = (email_index + 1) % MainPoolSize]]
    /\ UNCHANGED <<prog, proc, conn, subscribed, email_index, active_connections, ws, bc>>

\* line 62, the store to the global; then line 136 calls summarize_email
MainIndexStore(m) ==
    /\ prog = "main" /\ msg[m].pc = "index_store"
    /\ email_index' = msg[m].idx
    /\ msg' = [msg EXCEPT ![m] = [@ EXCEPT !.pc = "summary", !.idx = NoEmail,
                                            !.arg.summary = msg[m].email]]
    /\ UNCHANGED <<prog, proc, conn, subscribed, active_connections, ws, bc>>

\* analyze_email_urgency called on a second fetch, mock_emails[email_index]
\* as the cursor stands by then, instead of on email_content
MainSummaryReturn_Refetch(m) ==
    /\ prog = "main" /\ msg[m].pc = "summary"
    /\ \E a \in SummaryAnswers :
         msg' = [msg EXCEPT ![m] = [@ EXCEPT !.pc = "urgency", !.reply.summary = a,
                                            !.arg.urgency = email_index]]
    /\ UNCHANGED <<prog, proc, conn, subscribed, email_index, active_connections, ws, bc>>

\* line 136: summarize_email returns; line 137 calls analyze_email_urgency
\* with the same email_content
MainSummaryReturn(m) ==
    /\ prog = "main" /\ msg[m].pc = "summary"
    /\ \E a \in SummaryAnswers :
         msg' = [msg EXCEPT ![m] = [@ EXCEPT !.pc = "urgency", !.reply.summary = a,
                                            !.arg.urgency = msg[m].email]]
    /\ UNCHANGED <<prog, proc, conn, subscribed, email_index, active_connections, ws, bc>>

\* lines 137-145: analyze_email_urgency returns; publish summary and urgency
MainUrgencyReturn(m) ==
    /\ prog = "main" /\ msg[m].pc = "urgency"
    /\ \E a \in UrgencyAnswers :
         LET summary == call_openai_api(msg[m].reply.summary)
             urgency == analyze_email_urgency(call_openai_api(a))
             out1 == IF Truthy(summary)
                     THEN Append(msg[m].out, Pub(TOPIC_DISPLAY_SUMMARY, summary))
                     ELSE msg[m].out
             out2 == IF Truthy(urgency)
                     THEN Append(out1, Pub(TOPIC_URGENCY_LED, urgency))
                     ELSE out1
         IN msg' = [msg EXCEPT ![m] =
                      [@ EXCEPT !.pc = "done", !.reply.urgency = a,
                                !.email = NoEmail, !.arg = NoArg, !.out = out2]]
    /\ UNCHANGED <<prog, proc, conn, subscribed, email_index, active_connections, ws, bc>>

NextMain ==
    \/ MainConnect
    \/ on_connect
    \/ \E m \in Msgs : on_message(m)
    \/ \E m \in Msgs : MainParse(m)
    \/ \E m \in Msgs : MainQuoteReturn(m)
    \/ \E m \in Msgs : MainEmailLoad(m)
    \/ \E m \in Msgs : MainIndexLoad(m)
    \/ \E m \in Msgs : MainIndexStore(m)
    \/ \E m \in Msgs : MainSummaryReturn(m)
    \/ \E m \in Msgs : MainUrgencyReturn(m)

----------------------------------------------------------------------------
(* main_api.py: startup and the /data handler *)

\* startup_event: mqtt_client.connect raises -> re-raised, the application
\* does not start; otherwise loop_start() and the application serves
startup_event ==
    /\ prog \in {"api", "viewers"} /\ proc = "starting"
    /\ \E raised \in BOOLEAN :
         IF raised
         THEN proc' = "exited" /\ conn' = "raised"
         ELSE proc' = "running" /\ conn' = "pending"
    /\ UNCHANGED <<prog, subscribed, email_index, msg, active_connections, ws, bc>>

\* on_mqtt_connect(client, userdata, flags, rc): logs, nothing else
on_mqtt_connect ==
    /\ prog \in {"api", "viewers"} /\ proc = "running" /\ conn = "pending"
    /\ \E rc \in ConnackCodes :
         conn' = IF rc = 0 THEN "accepted" ELSE "refused"
    /\ UNCHANGED <<prog, proc, subscribed, email_index, msg, active_connections, ws, bc>>

\* class SensorData(BaseModel): does the request body validate
SensorData(p) ==
    /\ p.kind = "object"
    /\ p.temperature.t = "num"
    /\ p.humidity.t = "num"
    /\ p.light_percent.t \in {"absent", "num"}
    /\ p.nox_percent.t \in {"absent", "num"}

\* POST /data: validation (422 on failure), then process_sensor_data up to
\* its first await: get_latest_email() and the start of the three calls
ApiRequest(m) ==
    /\ prog = "api" /\ proc = "running"
    /\ NextMsg(m)
    /\ \E p \in Payloads :
         IF SensorData(p)
         THEN /\ msg' = [msg EXCEPT ![m] =
                           [@ EXCEPT !.pc = "gather", !.payload = p,
                                     !.email = email_index,
                                     !.arg = [summary |-> email_index,
                                              urgency |-> email_index]]]
              /\ email_index' = (email_index + 1) % ApiPoolSize
         ELSE /\ msg' = [msg EXCEPT ![m] =
                           [@ EXCEPT !.pc = "done", !.payload = p, !.status = 422]]
              /\ email_index' = email_index
    /\ UNCHANGED <<prog, proc, conn, subscribed, active_connections, ws, bc>>

Calls == {"quote", "summary", "urgency"}

Answers(call) ==
    CASE call = "quote" -> QuoteAnswers
      [] call = "summary" -> SummaryAnswers
      [] call = "urgency" -> UrgencyAnswers

\* the summary published to the quote topic
ApiPublish_WrongTopic(out, reply) ==
    out \o << Pub(TOPIC_DISPLAY_QUOTE, reply.quote),
              Pub(TOPIC_DISPLAY_QUOTE, reply.summary),
              Pub(TOPIC_URGENCY_LED, reply.urgency) >>

\* lines 227-232, after gather returned all three texts
ApiPublish(out, reply) ==
    out \o << Pub(TOPIC_DISPLAY_QUOTE, reply.quote),
              Pub(TOPIC_DISPLAY_SUMMARY, reply.summary),
              Pub(TOPIC_URGENCY_LED, reply.urgency) >>

\* One of the three coroutines under asyncio.gather finishes.  gather
\* propagates the first exception at once (HTTP 500, lines 234-238); when
\* the last of the three has returned its text, the handler publishes.
ApiCallReturn(m, call) ==
    /\ prog = "api" /\ msg[m].pc = "gather"
    /\ msg[m].reply[call] = Pending
    /\ \E a \in Answers(call) :
         LET reply == [msg[m].reply EXCEPT ![call] = a] IN
         msg' = [msg EXCEPT ![m] =
                   IF a = Failure
                   THEN [@ EXCEPT !.pc = "done", !.reply = reply,
                                  !.email = NoEmail, !.arg = NoArg, !.status = 500]
                   ELSE IF \A c \in Calls : reply[c] # Pending
                   THEN [@ EXCEPT !.pc = "done", !.reply = reply,
                                  !.email = NoEmail, !.arg = NoArg, !.status = 202,
                                  !.out = ApiPublish(@, reply)]
                   ELSE [@ EXCEPT !.reply = reply]]
    /\ UNCHANGED <<prog, proc, conn, subscribed, email_index, active_connections, ws, bc>>

NextApi ==
    \/ startup_event
    \/ on_mqtt_connect
    \/ \E m \in Msgs : ApiRequest(m)
    \/ \E m \in Msgs, call \in Calls : ApiCallReturn(m, call)

----------------------------------------------------------------------------
(* main_api.py: the viewer registry *)

InList(v, list) == \E k \in 1..Len(list) : list[k] = v

\* list.remove(x): drops the first occurrence of x (the caller checks InList;
\* Python raises ValueError otherwise)
remove(list, v) ==
    LET k == CHOOSE j \in 1..Len(list) :
                 list[j] = v /\ \A h \in 1..(j - 1) : list[h] # v
    IN [j \in 1..(Len(list) - 1) |-> IF j < k THEN list[j] ELSE list[j + 1]]

NextViewer(v) == ws[v] = "idle" /\ \A k \in Viewers : k < v => ws[k] # "idle"

\* bc.quiet: no handler has changed the registry since the broadcast_message
\* call recorded in bc was entered
Disturbed == IF bc.pc # "idle" THEN [bc EXCEPT !.quiet = FALSE] ELSE bc

\* websocket_endpoint, lines 97-102: accept, append, wait in receive_text
WsConnect(v) ==
    /\ prog = "viewers" /\ proc = "running"
    /\ NextViewer(v)
    /\ active_connections' = Append(active_connections, v)
    /\ ws' = [ws EXCEPT ![v] = "open"]
    /\ bc' = Disturbed
    /\ UNCHANGED <<prog, proc, conn, subscribed, email_index, msg>>

\* the client goes away: its receive_text and every later send raise
ClientDisconnect(v) ==
    /\ prog = "viewers" /\ ws[v] = "open"
    /\ ws' = [ws EXCEPT ![v] = "gone"]
    /\ UNCHANGED <<prog, proc, conn, subscribed, email_index, msg, active_connections, bc>>

\* websocket_endpoint, lines 103-106: receive_text raised; the finally block
\* removes the websocket, and list.remove raises ValueError if it is not there
WsHandlerExit(v) ==
    /\ prog = "viewers" /\ ws[v] = "gone"
    /\ IF InList(v, active_connections)
       THEN /\ active_connections' = remove(active_connections, v)
            /\ ws' = [ws EXCEPT ![v] = "exited"]
       ELSE /\ active_connections' = active_connections
            /\ ws' = [ws EXCEPT ![v] = "crashed"]
    /\ bc' = Disturbed
    /\ UNCHANGED <<prog, proc, conn, subscribed, email_index, msg>>

\* payload.get(key, default)
getdefault(payload, key, default) ==
    IF payload[key] = Absent THEN default ELSE payload[key]

\* broadcast_message whose summary branch also fills the quote field
Message_SummaryInQuote(topic, payload) ==
    CASE topic = TOPIC_SENSOR_DATA ->
           [type |-> "sensor_data", quote |-> "", summary |-> "", level |-> ""]
      [] topic = TOPIC_DISPLAY_QUOTE ->
           [type |-> "display_message",
            quote |-> getdefault(payload, "quote", ""), summary |-> "", level |-> ""]
      [] topic = TOPIC_DISPLAY_SUMMARY ->
           [type |-> "display_message",
            quote |-> getdefault(payload, "summary", ""),
            summary |-> getdefault(payload, "summary", ""), level |-> ""]
      [] topic = TOPIC_URGENCY_LED ->
           [type |-> "urgency", quote |-> "", summary |-> "",
            level |-> getdefault(payload, "level", "LOW")]
      [] OTHER -> NoMessage

\* broadcast_message, lines 59-81: the message built for a topic
Message(topic, payload) ==
    CASE topic = TOPIC_SENSOR_DATA ->
           [type |-> "sensor_data", quote |-> "", summary |-> "", level |-> ""]
      [] topic = TOPIC_DISPLAY_QUOTE ->
           [type |-> "display_message",
            quote |-> getdefault(payload, "quote", ""), summary |-> "", level |-> ""]
      [] topic = TOPIC_DISPLAY_SUMMARY ->
           [type |-> "display_message", quote |-> "",
            summary |-> getdefault(payload, "summary", ""), level |-> ""]
      [] topic = TOPIC_URGENCY_LED ->
           [type |-> "urgency", quote |-> "", summary |-> "",
            level |-> getdefault(payload, "level", "LOW")]
      [] OTHER -> NoMessage

CastTopics ==
    {TOPIC_SENSOR_DATA, TOPIC_DISPLAY_QUOTE, TOPIC_DISPLAY_SUMMARY,
     TOPIC_URGENCY_LED, "auralink/other"}

CastPayloads ==
    { CastPayload(Absent, Absent, Absent),
      CastPayload("A warm, still room.", Absent, Absent),
      CastPayload(Absent, "Deadline moved to Friday.", Absent),
      CastPayload(Absent, Absent, "HIGH") }

ListSet(list) == {list[k] : k \in 1..Len(list)}

\* broadcast_message is entered: lines 56-83, up to the for statement
BroadcastStart ==
    /\ prog = "viewers" /\ proc = "running"
    /\ bc.pc \in {"idle", "returned", "raised"}
    /\ \E topic \in CastTopics, payload \in CastPayloads :
         LET message == IF active_connections = <<>>
                        THEN NoMessage
                        ELSE Message(topic, payload)
         IN bc' = [IdleCast EXCEPT
                      !.pc = IF message = NoMessage THEN "returned" ELSE "iter",
                      !.topic = topic,
                      !.message = message,
                      !.start = ListSet(active_connections)]
    /\ UNCHANGED <<prog, proc, conn, subscribed, email_index, msg, active_connections, ws>>

\* line 84: the list iterator yields active_connections[i] and advances, or
\* is exhausted; line 86: send_json is awaited
BroadcastNext ==
    /\ prog = "viewers" /\ bc.pc = "iter"
    /\ IF bc.i < Len(active_connections)
       THEN bc' = [bc EXCEPT !.pc = "sending",
                             !.cur = active_connections[bc.i + 1],
                             !.i = bc.i + 1,
                             !.tried = @ \cup {active_connections[bc.i + 1]}]
       ELSE bc' = [bc EXCEPT !.pc = "returned", !.cur = 0]
    /\ UNCHANGED <<prog, proc, conn, subscribed, email_index, msg, active_connections, ws>>

\* lines 86-89: the awaited send returns, or raises and the connection is
\* removed from the list being iterated (ValueError if it is no longer there)
BroadcastSendDone ==
    /\ prog = "viewers" /\ bc.pc = "sending"
    /\ IF ws[bc.cur] = "open"
       THEN /\ bc' = [bc EXCEPT !.pc = "iter", !.delivered = @ \cup {bc.cur}]
            /\ active_connections' = active_connections
       ELSE IF InList(bc.cur, active_connections)
       THEN /\ bc' = [bc EXCEPT !.pc = "iter", !.evicted = @ \cup {bc.cur}]
            /\ active_connections' = remove(active_connections, bc.cur)
       ELSE /\ bc' = [bc EXCEPT !.pc = "raised"]
            /\ active_connections' = active_connections
    /\ UNCHANGED <<prog, proc, conn, subscribed, email_index, msg, ws>>

NextViewers ==
    \/ \E v \in Viewers : WsConnect(v)
    \/ \E v \in Viewers : ClientDisconnect(v)
    \/ \E v \in Viewers : WsHandlerExit(v)
    \/ BroadcastStart
    \/ BroadcastNext
    \/ BroadcastSendDone

Next == NextMain \/ NextApi \/ NextViewers

Spec == Init /\ [][Next]_vars

\* the two sensor pipelines: main.py, and /data of main_api.py
SpecPipeline ==
    InitPipeline /\ [][NextMain \/ NextApi]_vars

\* one program at a time
SpecMain == InitMain /\ [][NextMain]_vars
SpecApi == InitApi /\ [][NextApi]_vars
SpecViewers == InitViewers /\ [][startup_event \/ on_mqtt_connect \/ NextViewers]_vars

\* A pipeline that has been serving for a while: connected (main.py also
\* subscribed), every earlier message handled and forgotten, the cursor on
\* the last entry of the pool, so that the next fetch wraps around.
Serving(p, cursor) ==
    /\ prog = p
    /\ proc = "running"
    /\ conn = "accepted"
    /\ subscribed = (p = "main")
    /\ email_index = cursor
    /\ msg = [m \in Msgs |-> IdleMsg]
    /\ active_connections = <<>>
    /\ ws = [v \in Viewers |-> "idle"]
    /\ bc = IdleCast

InitWrap == Serving("main", MainPoolSize - 1) \/ Serving("api", ApiPoolSize - 1)

\* the handling of sensor messages, in main.py and in /data
NextHandling ==
    \/ \E m \in Msgs : on_message(m)
    \/ \E m \in Msgs : MainParse(m)
    \/ \E m \in Msgs : MainQuoteReturn(m)
    \/ \E m \in Msgs : MainEmailLoad(m)
    \/ \E m \in Msgs : MainIndexLoad(m)
    \/ \E m \in Msgs : MainIndexStore(m)
    \/ \E m \in Msgs : MainSummaryReturn(m)
    \/ \E m \in Msgs : MainUrgencyReturn(m)
    \/ \E m \in Msgs : ApiRequest(m)
    \/ \E m \in Msgs, call \in Calls : ApiCallReturn(m, call)

SpecWrap == InitWrap /\ [][NextHandling]_vars

----------------------------------------------------------------------------
(* Vocabulary of the properties *)

Done(m) == msg[m].pc = "done"

\* a valid SensorReading: temperature and humidity present and numeric, light
\* and air quality numeric when present
WellFormed(p) ==
    /\ p.kind = "object"
    /\ p.temperature.t = "num"
    /\ p.humidity.t = "num"
    /\ p.light_percent.t \in {"absent", "num"}
    /\ p.nox_percent.t \in {"absent", "num"}

\* the payload was parsed and accepted: the message is past validation
Accepted(m) == msg[m].pc \notin {"idle", "started"} /\ msg[m].status # 422

\* a call succeeded: it returned a non-empty text
Succeeded(a) == a \notin {Pending, Failure, ""}

TopicOf(call) ==
    CASE call = "quote" -> TOPIC_DISPLAY_QUOTE
      [] call = "summary" -> TOPIC_DISPLAY_SUMMARY
      [] call = "urgency" -> TOPIC_URGENCY_LED

\* positions of the events of one kind on one topic among a message's outputs
Events(m, kind, topic) ==
    {k \in DOMAIN msg[m].out : msg[m].out[k].kind = kind /\ msg[m].out[k].topic = topic}

Published(m, topic) == Events(m, "publish", topic)

PublishedPayloads(m, topic) == {msg[m].out[k].payload : k \in Published(m, topic)}

\* email fetches that have returned
Fetched(m) ==
    IF prog = "main"
    THEN msg[m].pc \in {"summary", "urgency"} \/ (Done(m) /\ msg[m].reply.quote # Pending)
    ELSE msg[m].pc = "gather" \/ (Done(m) /\ msg[m].status \in {202, 500})

Fetching(m) == msg[m].pc \in {"index_load", "index_store"}

----------------------------------------------------------------------------
(* C1: a malformed sensor payload (not JSON, temperature or humidity        *)
(* missing, temperature or humidity not a number) produces no bus publish   *)
(* and no viewer broadcast, in main.py and in main_api.py.                  *)
C1_MalformedProducesNothing ==
    \A m \in Msgs :
        (msg[m].pc # "idle" /\ ~WellFormed(msg[m].payload)) => msg[m].out = <<>>

(* C2: once a valid payload is parsed, exactly one sensor_data broadcast    *)
(* has been issued for it, and it is there before any of the message's      *)
(* enrichment calls has returned (it is there in every state after the      *)
(* parse, those with all three calls unresolved included).                  *)
C2_OneSensorBroadcastFirst ==
    \A m \in Msgs :
        (Accepted(m) /\ WellFormed(msg[m].payload))
            => Cardinality(Events(m, "broadcast", TOPIC_SENSOR_DATA)) = 1

(* C3: failure isolation: when handling of a message is over, every call    *)
(* that succeeded for it has its publish on its topic, whatever happened    *)
(* to its siblings, and a summary call that failed has none.                *)
C3_FailureIsolation ==
    \A m \in Msgs :
        Done(m) =>
            /\ \A c \in Calls :
                 Succeeded(msg[m].reply[c]) => Published(m, TopicOf(c)) # {}
            /\ msg[m].reply.summary = Failure => Published(m, TOPIC_DISPLAY_SUMMARY) = {}

(* C4: every payload published to auralink/urgency/led is LOW, MEDIUM or    *)
(* HIGH.                                                                    *)
C4_UrgencyIsALevel ==
    \A m \in Msgs : PublishedPayloads(m, TOPIC_URGENCY_LED) \subseteq Levels

C6_CursorCountsFetches ==
    (\A m \in Msgs : ~Fetching(m))
        => email_index = Cardinality({m \in Msgs : Fetched(m)}) % PoolSize

(* C7: a broadcast_message call (with no registration or handler exit       *)
(* since it was entered) removes exactly the viewers whose send raised and  *)
(* attempts a send to every viewer registered when it started.              *)
C7_BroadcastReachesEveryViewer ==
    (bc.pc = "returned" /\ bc.quiet /\ bc.message # NoMessage) =>
        /\ bc.start \subseteq bc.tried
        /\ bc.evicted \cap bc.delivered = {}
        /\ ListSet(active_connections) = bc.start \ bc.evicted

(* C8: when /data returns, every enrichment result that was produced for    *)
(* the request has been published to its topic.                             *)
C8_DataPublishesWhatItProduced ==
    \A m \in Msgs :
        (prog = "api" /\ Done(m) /\ msg[m].status # 0) =>
            \A c \in Calls :
                Succeeded(msg[m].reply[c])
                    => msg[m].reply[c] \in PublishedPayloads(m, TopicOf(c))

(* C9: a valid payload whose three enrichment calls all succeed yields      *)
(* exactly three bus publishes, one on each of the quote, summary and       *)
(* urgency topics.                                                          *)
C9_ThreePublishes ==
    \A m \in Msgs :
        (Done(m) /\ WellFormed(msg[m].payload)
                 /\ \A c \in Calls : Succeeded(msg[m].reply[c])) =>
            /\ Len(msg[m].out) = 3
            /\ \A c \in Calls : Cardinality(Published(m, TopicOf(c))) = 1

C9_Witness ==
    \E m \in Msgs :
        /\ Done(m) /\ msg[m].payload = TestPayload
        /\ \A c \in Calls : Succeeded(msg[m].reply[c])
        /\ Len(msg[m].out) = 3

(* C10: when the first connection attempt does not succeed (connect raises  *)
(* or the broker refuses with a non-zero return code) the process is        *)
(* terminated and no sensor message is ever processed.                      *)
C10_ConnectFailureIsFatal ==
    conn \in {"raised", "refused"} =>
        /\ proc = "exited"
        /\ \A m \in Msgs : msg[m].pc = "idle"

----------------------------------------------------------------------------
\* an enrichment call of message m has been started and has not returned
InFlight(m) ==
    IF prog = "main"
    THEN msg[m].pc \in {"quote", "summary", "urgency"}
    ELSE msg[m].pc = "gather"

(* C11: on_message returns without waiting for an enrichment call: while    *)
(* the process is connected and subscribed, the next sensor message can be  *)
(* delivered and handed to its own thread in every state, whatever the      *)
(* threads of the earlier messages are doing, so any number of messages     *)
(* can have unresolved calls at the same time.                              *)
C11_DeliveryNeverWaits ==
    \A m \in Msgs :
        (prog = "main" /\ proc = "running" /\ subscribed /\ NextMsg(m))
            => ENABLED on_message(m)

C11_Witness ==
    /\ prog = "main"
    /\ \A m \in Msgs : InFlight(m)

\* the enrichment call `call` of message m has been invoked: main.py invokes
\* the calls one after the other (lines 129, 136, 137), main_api.py hands the
\* three of them to asyncio.gather at once (lines 221-225)
CallStarted(m, call) ==
    IF prog = "main"
    THEN \/ msg[m].reply[call] # Pending
         \/ msg[m].pc = call
    ELSE msg[m].pc = "gather" \/ msg[m].status \in {202, 500}

\* the call has been invoked and has not returned
Unresolved(m, call) == CallStarted(m, call) /\ msg[m].reply[call] = Pending

(* C12: within one message the summarize call and the urgency call run      *)
(* concurrently: neither is started only after the other has resolved, so   *)
(* whenever one of the two is unresolved the other has been started too.    *)
C12_SummaryAndUrgencyOverlap ==
    \A m \in Msgs :
        /\ Unresolved(m, "summary") => CallStarted(m, "urgency")
        /\ Unresolved(m, "urgency") => CallStarted(m, "summary")

(* C13: each of the quote, summary and urgency results is published as soon *)
(* as its own call resolves, without waiting for a sibling call: in every   *)
(* state, those where a sibling call is still unresolved included, a call   *)
(* that has returned a text has its publish on its topic.                   *)
C13_PublishedAsSoonAsResolved ==
    \A m \in Msgs : \A c \in Calls :
        Succeeded(msg[m].reply[c]) => Published(m, TopicOf(c)) # {}

(* C14: registration, unregistration and broadcast are safe under every     *)
(* interleaving: neither the handler's final remove nor the broadcast's     *)
(* eviction raises because the other one already removed the viewer, and a  *)
(* viewer whose handler has exited or that a broadcast evicted is not in    *)
(* active_connections.                                                      *)
C14_RegistrySafe ==
    /\ bc.pc # "raised"
    /\ \A v \in Viewers :
         /\ ws[v] # "crashed"
         /\ (ws[v] = "exited" \/ v \in bc.evicted) => ~InList(v, active_connections)

\* the broadcast in progress has sent a display_message event to a viewer
DisplaySent == bc.message.type = "display_message" /\ bc.delivered # {}

C16_NoRetry ==
    /\ [](\A m \in Msgs : \A c \in Calls : Cardinality(Published(m, TopicOf(c))) <= 1)
    /\ [][\A m \in Msgs : \A c \in Calls :
            msg[m].reply[c] # Pending =>
                /\ msg'[m].reply[c] = msg[m].reply[c]
                /\ prog = "main" => msg'[m].pc # c]_vars

C16_Witness ==
    \E m \in Msgs :
        /\ Done(m)
        /\ msg[m].reply.quote = Failure
        /\ Succeeded(msg[m].reply.summary)
        /\ Published(m, TOPIC_DISPLAY_QUOTE) = {}
        /\ Cardinality(Published(m, TOPIC_DISPLAY_SUMMARY)) = 1

\* handling of message m met a failure: its payload was malformed or one of
\* its enrichment calls failed
Failed(m) ==
    /\ msg[m].pc # "idle"
    /\ \/ ~WellFormed(msg[m].payload)
       \/ \E c \in Calls : msg[m].reply[c] = Failure

(* C17: no failure while handling one message terminates main.py: after a   *)
(* malformed payload or a failed enrichment call the process is still       *)
(* running and subscribed, and the next sensor message can be delivered     *)
(* and processed.                                                           *)
C17_FailureIsNotFatal ==
    \A k \in Msgs :
        (prog = "main" /\ Failed(k)) =>
            /\ proc = "running"
            /\ subscribed
            /\ \A m \in Msgs : NextMsg(m) => ENABLED on_message(m)

(* C18: under every interleaving of get_latest_email calls the email cursor *)
(* is a valid index of the pool, 0 <= cursor < pool size, also after it     *)
(* has passed the last entry, and so is every index an email was fetched    *)
(* with and every value a thread is about to store into the cursor.         *)
C18_CursorInRange ==
    /\ email_index \in 0..(PoolSize - 1)
    /\ \A m \in Msgs :
         /\ msg[m].email # NoEmail => msg[m].email \in 0..(PoolSize - 1)
         /\ msg[m].idx # NoEmail => msg[m].idx \in 0..(PoolSize - 1)

\* a fetch took the last entry of the pool and the cursor wrapped to 0
C18_Witness ==
    /\ prog = "main"
    /\ email_index = 0
    /\ \E m \in Msgs : msg[m].email = MainPoolSize - 1 /\ msg[m].pc = "summary"

EmailCalls == {"summary", "urgency"}

(* C19: for one message exactly one email is fetched, and the summary and   *)
(* the urgency published for it are computed from that one email, also      *)
(* when other messages advance the shared cursor in between: every email    *)
(* call is invoked with the email the message fetched, the fetched email    *)
(* is never replaced by another one, and the step that publishes the        *)
(* summary and the urgency is taken when both calls were invoked with it.   *)
C19_OneEmailPerMessage ==
    /\ [](\A m \in Msgs : \A c \in EmailCalls :
            msg[m].arg[c] # NoEmail => msg[m].arg[c] = msg[m].email)
    /\ [][\A m \in Msgs :
            /\ msg[m].email # NoEmail => msg'[m].email \in {msg[m].email, NoEmail}
            /\ (msg[m].pc \in {"urgency", "gather"} /\ msg'[m].out # msg[m].out) =>
                  \A c \in EmailCalls : msg[m].arg[c] = msg[m].email]_vars

\* both calls of one message were invoked with its email although another
\* message has moved the cursor since the fetch
C19_Witness ==
    \E m \in Msgs :
        /\ prog = "main" /\ msg[m].pc = "urgency"
        /\ msg[m].arg.summary = msg[m].email
        /\ msg[m].arg.urgency = msg[m].email
        /\ email_index # (msg[m].email + 1) % MainPoolSize

====
